---- MODULE Spec2Model ----
(***************************************************************************)
(* Wysi: the content sanitization pipeline of src/src/filter.js            *)
(* (enableTags, prepareContent, filterContent, filterStyles, replaceNode,  *)
(* wrapTextNodes, cleanContent) over an explicit DOM fragment, and the     *)
(* editor instances of src/src/core.js (init, destroy, the paste and       *)
(* input listeners).  Spec runs one call of prepareContent, SpecAllow the  *)
(* construction of an allow-list, SpecEditor the events of a page, and     *)
(* SpecReady the calls of the API while the document loads (DOMReady of    *)
(* src/src/utils.js).                                                      *)
(*                                                                         *)
(* HTML text is a sequence of atoms.  An atom is one text character, or    *)
(* the spelling of one start tag, end tag or comment.  The field esc says  *)
(* how many times the spelling is entity-escaped: 0 is live markup         *)
(* (<b>), 1 is &lt;b&gt;, 2 is &amp;lt;b&amp;gt;.  A text node's data is   *)
(* a sequence of the same atoms, esc = 0 standing for the characters "<b>".*)
(* Attribute values are sequences of strings (the lexemes of the value).   *)
(***************************************************************************)
EXTENDS Naturals, Sequences, FiniteSets, TLC

VARIABLES content, allowedTags, filterOnly, pc, fragment, result,
          tools, customTags,
          objects, instances, nextId, editors, textareas, isFirefox, last, events,
          readyState, loaded, fired, listeners, ran, calls

\* One call of prepareContent.
pipelineVars == <<content, allowedTags, filterOnly, pc, fragment, result>>

\* The options init() reads.
optionVars == <<tools, customTags>>

\* The page: the option objects the caller holds, the registry of instances
\* (common.js), the next instance id (core.js), the editable region and the
\* textarea of each field, the browser, the last event handled and its
\* effects, and the number of events so far.
pageVars == <<objects, instances, nextId, editors, textareas, isFirefox, last, events>>

\* The loading document: document.readyState, whether the script of the
\* library has been evaluated, whether DOMContentLoaded has been dispatched,
\* the listeners of DOMContentLoaded in the order of their registration, the
\* functions executed so far in their order, and the number of API calls.
readyVars == <<readyState, loaded, fired, listeners, ran, calls>>

vars == <<pipelineVars, optionVars, pageVars, readyVars>>

(***************************************************************************)
(* Sequence helpers                                                        *)
(***************************************************************************)
RECURSIVE Flatten(_)
Flatten(ss) == IF ss = <<>> THEN <<>> ELSE Head(ss) \o Flatten(Tail(ss))

Last(s) == s[Len(s)]

Front(s) == SubSeq(s, 1, Len(s) - 1)

Range(s) == {s[i] : i \in DOMAIN s}

Includes(s, x) == \E i \in DOMAIN s : s[i] = x

(***************************************************************************)
(* Atoms of HTML text                                                      *)
(***************************************************************************)
Chr(c) == [k |-> "chr", tag |-> c, attrs |-> <<>>, esc |-> 0]

Open(t, as) == [k |-> "open", tag |-> t, attrs |-> as, esc |-> 0]

Close(t) == [k |-> "close", tag |-> t, attrs |-> <<>>, esc |-> 0]

Cmt(d) == [k |-> "cmt", tag |-> d, attrs |-> <<>>, esc |-> 0]

Attr(n, v) == [name |-> n, value |-> v]

\* One level of entity escaping (&, <, > of the spelling) and of decoding.
Escape(a) == IF a.k = "chr" THEN a ELSE [a EXCEPT !.esc = @ + 1]

Unescape(a) == IF a.k = "chr" \/ a.esc = 0 THEN a ELSE [a EXCEPT !.esc = @ - 1]

IsMarkup(a) == a.k # "chr" /\ a.esc = 0

IsSpace(a) == a.k = "chr" /\ a.tag = " "

(***************************************************************************)
(* DOM nodes                                                               *)
(***************************************************************************)
Elem(t, as, ks) == [type |-> "el", tag |-> t, attrs |-> as, kids |-> ks, text |-> <<>>]

Text(d) == [type |-> "text", tag |-> "", attrs |-> <<>>, kids |-> <<>>, text |-> d]

Comment(d) == [type |-> "comment", tag |-> "", attrs |-> <<>>, kids |-> <<>>, text |-> d]

\* Elements without content or end tag.
VoidTags == {"br", "img", "hr"}

\* Elements whose content is read and written without entity decoding.
RawTextTags == {"style", "script"}

\* Start tags that close an open paragraph.
ClosesP == {"p", "div", "ul", "ol", "li", "blockquote", "hr", "h1", "h2", "h3", "h4"}

\* Formatting elements: the tree builder reopens them after a misnested end.
FormattingTags == {"b", "strong", "i", "em", "u", "s", "strike", "a"}

(***************************************************************************)
(* The HTML parser behind template.innerHTML and element.innerHTML         *)
(***************************************************************************)
Frame(t, as) == [tag |-> t, attrs |-> as, kids |-> <<>>]

AppendNode(stack, n) ==
  [stack EXCEPT ![Len(stack)].kids = @ \o <<n>>]

AppendText(stack, a) ==
  LET ks == stack[Len(stack)].kids
  IN IF ks # <<>> /\ Last(ks).type = "text"
       THEN [stack EXCEPT ![Len(stack)].kids = Front(ks) \o <<Text(Last(ks).text \o <<a>>)>>]
       ELSE AppendNode(stack, Text(<<a>>))

PopFrame(stack) ==
  LET f == Last(stack)
  IN AppendNode(Front(stack), Elem(f.tag, f.attrs, f.kids))

RECURSIVE PopTo(_, _)
PopTo(stack, n) == IF Len(stack) <= n THEN stack ELSE PopTo(PopFrame(stack), n)

\* Index of the innermost open element with this tag (0: none); 1 is the root.
OpenIndex(stack, t) ==
  LET S == {i \in 2..Len(stack) : stack[i].tag = t}
  IN IF S = {} THEN 0 ELSE CHOOSE i \in S : \A j \in S : j <= i

\* Closing open element i drops a formatting element that is not the one closed.
Misnests(stack, i) ==
  \E j \in (i + 1)..Len(stack) : stack[j].tag \in FormattingTags
  \/ (i < Len(stack) /\ stack[i].tag \in FormattingTags)

ParseStep(st, a) ==
  LET stack == st.stack
      top == Last(stack)
      raw == top.tag \in RawTextTags
  IN IF raw
       THEN IF a.k = "close" /\ a.esc = 0 /\ a.tag = top.tag /\ Len(stack) > 1
              THEN [st EXCEPT !.stack = PopFrame(stack)]
              ELSE [st EXCEPT !.stack = AppendText(stack, a)]
     ELSE IF ~IsMarkup(a)
       THEN [st EXCEPT !.stack = AppendText(stack, Unescape(a))]
     ELSE IF a.k = "cmt"
       THEN [st EXCEPT !.stack = AppendNode(stack, Comment(a.tag))]
     ELSE IF a.k = "open"
       THEN LET p == IF a.tag \in ClosesP THEN OpenIndex(stack, "p") ELSE 0
                s1 == IF p > 0 THEN PopTo(stack, p - 1) ELSE stack
                bad == p > 0 /\ Misnests(stack, p)
            IN IF a.tag \in VoidTags
                 THEN [stack |-> AppendNode(s1, Elem(a.tag, a.attrs, <<>>)),
                       ok |-> st.ok /\ ~bad]
                 ELSE [stack |-> s1 \o <<Frame(a.tag, a.attrs)>>,
                       ok |-> st.ok /\ ~bad]
     ELSE LET i == OpenIndex(stack, a.tag)
          IN IF i > 0
               THEN [stack |-> PopTo(stack, i - 1), ok |-> st.ok /\ ~Misnests(stack, i)]
             ELSE IF a.tag = "p"
               THEN [st EXCEPT !.stack = AppendNode(stack, Elem("p", <<>>, <<>>))]
             ELSE IF a.tag = "br"
               THEN [st EXCEPT !.stack = AppendNode(stack, Elem("br", <<>>, <<>>))]
             ELSE st

RECURSIVE ParseRun(_, _, _)
ParseRun(html, i, st) ==
  IF i > Len(html) THEN st ELSE ParseRun(html, i + 1, ParseStep(st, html[i]))

\* The children an element of tag ctx gets when html is assigned to its innerHTML.
ParseIn(ctx, html) ==
  LET st == ParseRun(html, 1, [stack |-> <<Frame(ctx, <<>>)>>, ok |-> TRUE])
  IN PopTo(st.stack, 1)[1].kids

\* No end tag or paragraph start of html closes across a formatting element.
WellNested(html) ==
  ParseRun(html, 1, [stack |-> <<Frame("template", <<>>)>>, ok |-> TRUE]).ok

(***************************************************************************)
(* The HTML serializer behind innerHTML, outerHTML and textContent         *)
(***************************************************************************)
RECURSIVE Serialize(_, _)
Serialize(nodes, raw) ==
  Flatten([i \in DOMAIN nodes |->
    LET n == nodes[i]
    IN IF n.type = "text"
         THEN IF raw THEN n.text ELSE [j \in DOMAIN n.text |-> Escape(n.text[j])]
       ELSE IF n.type = "comment"
         THEN <<Cmt(n.text)>>
       ELSE IF n.tag \in VoidTags
         THEN <<Open(n.tag, n.attrs)>>
       ELSE <<Open(n.tag, n.attrs)>> \o Serialize(n.kids, n.tag \in RawTextTags)
              \o <<Close(n.tag)>>])

innerHTML(n) == Serialize(n.kids, n.tag \in RawTextTags)

outerHTML(n) == Serialize(<<n>>, FALSE)

RECURSIVE textContentOf(_)
textContentOf(nodes) ==
  Flatten([i \in DOMAIN nodes |->
    IF nodes[i].type = "text" THEN nodes[i].text
    ELSE IF nodes[i].type = "comment" THEN <<>>
    ELSE textContentOf(nodes[i].kids)])

textContent(n) ==
  IF n.type = "el" THEN textContentOf(n.kids) ELSE
  IF n.type = "text" THEN n.text ELSE <<Chr(n.text)>>

(***************************************************************************)
(* The tool registry (toolset.js) and the allow-list builder               *)
(***************************************************************************)
Tool(tags, extraTags, alias, attributes, styles, isEmpty) ==
  [hasTags |-> TRUE, tags |-> tags, extraTags |-> extraTags, alias |-> alias,
   attributes |-> attributes, styles |-> styles, isEmpty |-> isEmpty]

\* A tool that is only a command: it declares no tags.
Command == [hasTags |-> FALSE, tags |-> <<>>, extraTags |-> <<>>, alias |-> <<>>,
            attributes |-> <<>>, styles |-> <<>>, isEmpty |-> FALSE]

toolset ==
  [n \in {"format", "quote", "bold", "italic", "underline", "strike", "alignLeft",
          "alignCenter", "alignRight", "alignJustify", "ul", "ol", "indent",
          "outdent", "link", "image", "hr", "removeFormat", "unlink"} |->
    CASE n = "format" -> Tool(<<"p", "h1", "h2", "h3", "h4">>, <<>>, <<>>, <<>>,
                              <<"text-align">>, FALSE)
      [] n = "quote" -> Tool(<<"blockquote">>, <<>>, <<>>, <<>>, <<>>, FALSE)
      [] n = "bold" -> Tool(<<"strong">>, <<>>, <<"b">>, <<>>, <<>>, FALSE)
      [] n = "italic" -> Tool(<<"em">>, <<>>, <<"i">>, <<>>, <<>>, FALSE)
      [] n = "underline" -> Tool(<<"u">>, <<>>, <<>>, <<>>, <<>>, FALSE)
      [] n = "strike" -> Tool(<<"s">>, <<>>, <<"del", "strike">>, <<>>, <<>>, FALSE)
      [] n = "ul" -> Tool(<<"ul">>, <<"li">>, <<>>, <<>>, <<"text-align">>, FALSE)
      [] n = "ol" -> Tool(<<"ol">>, <<"li">>, <<>>, <<>>, <<"text-align">>, FALSE)
      [] n = "link" -> Tool(<<"a">>, <<>>, <<>>, <<"href", "target">>, <<>>, FALSE)
      [] n = "image" -> Tool(<<"img">>, <<>>, <<>>, <<"src", "alt">>,
                             <<"width", "display", "margin", "float">>, TRUE)
      [] n = "hr" -> Tool(<<"hr">>, <<>>, <<>>, <<>>, <<>>, TRUE)
      [] OTHER -> Command]

\* An allow-list entry; alias "" and toolName "" stand for an absent property.
Entry(attributes, styles, alias, isEmpty, toolName) ==
  [attributes |-> attributes, styles |-> styles, alias |-> alias,
   isEmpty |-> isEmpty, toolName |-> toolName]

\* settings.allowedTags: the tags that are always allowed.
settingsAllowedTags == [t \in {"br"} |-> Entry(<<>>, <<>>, "", TRUE, "")]

\* allowedTags[tag] = e
SetTag(allowed, tag, e) ==
  [t \in DOMAIN allowed \cup {tag} |-> IF t = tag THEN e ELSE allowed[t]]

RECURSIVE SetTags(_, _, _, _)
SetTags(allowed, tags, i, entryOf) ==
  IF i > Len(tags) THEN allowed
  ELSE SetTags(SetTag(allowed, tags[i], entryOf[tags[i]]), tags, i + 1, entryOf)

enableTool(allowed, toolName) ==
  IF toolName \notin DOMAIN toolset \/ ~toolset[toolName].hasTags THEN allowed
  ELSE LET tool == toolset[toolName]
           alias == IF tool.alias # <<>> THEN tool.tags[1] ELSE ""
           tags == tool.tags \o tool.extraTags \o tool.alias
           entryOf == [tag \in Range(tags) |->
                         Entry(tool.attributes, tool.styles, alias, tool.isEmpty,
                               IF Includes(tool.extraTags, tag) THEN "" ELSE toolName)]
       IN SetTags(allowed, tags, 1, entryOf)

RECURSIVE enableFrom(_, _, _)
enableFrom(allowed, toolNames, i) ==
  IF i > Len(toolNames) THEN allowed
  ELSE enableFrom(enableTool(allowed, toolNames[i]), toolNames, i + 1)

enableTags(toolNames) == enableFrom(settingsAllowedTags, toolNames, 1)

\* The property names every object inherits as functions: toolset[name] is
\* then a function, JSON.stringify of it is undefined, and JSON.parse throws.
InheritedFunctions ==
  {"constructor", "toString", "toLocaleString", "valueOf", "hasOwnProperty",
   "isPrototypeOf", "propertyIsEnumerable"}

\* cloneObject(toolset[toolName]) throws for some listed tool.
enableTagsThrows(toolNames) ==
  \E i \in DOMAIN toolNames : toolNames[i] \in InheritedFunctions

\* A tool group of the toolbar ({label, items}), as the property key it is
\* converted to when used as an index of toolset.
Group == "[object Object]"

\* A custom declaration of the options (customTags).
Custom(tags, attributes, styles, isEmpty) ==
  [hasTags |-> TRUE, tags |-> tags, attributes |-> attributes, styles |-> styles,
   isEmpty |-> isEmpty]

\* Custom declarations merged into the entry a tool registered, so that the
\* tool's alias target and name stay.
RECURSIVE addCustomTagsKeeping(_, _, _)
addCustomTagsKeeping(allowed, customs, i) ==
  IF i > Len(customs) THEN allowed
  ELSE LET custom == customs[i]
           entryOf == [tag \in Range(custom.tags) |->
                         Entry(custom.attributes, custom.styles,
                               IF tag \in DOMAIN allowed THEN allowed[tag].alias ELSE "",
                               custom.isEmpty,
                               IF tag \in DOMAIN allowed THEN allowed[tag].toolName ELSE "")]
       IN addCustomTagsKeeping(IF custom.hasTags
                                 THEN SetTags(allowed, custom.tags, 1, entryOf)
                                 ELSE allowed,
                               customs, i + 1)

RECURSIVE addCustomTags(_, _, _)
addCustomTags(allowed, customs, i) ==
  IF i > Len(customs) THEN allowed
  ELSE LET custom == customs[i]
           entryOf == [tag \in Range(custom.tags) |->
                         Entry(custom.attributes, custom.styles, "", custom.isEmpty, "")]
       IN addCustomTags(IF custom.hasTags
                          THEN SetTags(allowed, custom.tags, 1, entryOf)
                          ELSE allowed,
                        customs, i + 1)

\* The allow-list init() builds from the options' tools and customTags.
initAllowedTags(toolNames, customs) == addCustomTags(enableTags(toolNames), customs, 1)

(***************************************************************************)
(* Attribute values: splitting, trimming, and the element's style object   *)
(***************************************************************************)
STYLE_ATTRIBUTE == "style"

ALIGN_ATTRIBUTE == "align"

\* String.prototype.split on a one-lexeme separator.
RECURSIVE Split(_, _)
Split(s, sep) ==
  IF \A i \in DOMAIN s : s[i] # sep THEN <<s>>
  ELSE LET i == CHOOSE i \in DOMAIN s : s[i] = sep /\ \A j \in 1..(i - 1) : s[j] # sep
       IN <<SubSeq(s, 1, i - 1)>> \o Split(SubSeq(s, i + 1, Len(s)), sep)

\* String.prototype.trim on an attribute value.
RECURSIVE Trim(_)
Trim(s) ==
  IF s = <<>> THEN s
  ELSE IF s[1] = " " THEN Trim(Tail(s))
  ELSE IF Last(s) = " " THEN Trim(Front(s))
  ELSE s

\* String.prototype.trim on HTML text.
RECURSIVE TrimHtml(_)
TrimHtml(s) ==
  IF s = <<>> THEN s
  ELSE IF IsSpace(s[1]) THEN TrimHtml(Tail(s))
  ELSE IF IsSpace(Last(s)) THEN TrimHtml(Front(s))
  ELSE s

HasAttribute(attrs, name) == \E i \in DOMAIN attrs : attrs[i].name = name

\* getAttribute: the value; callers test HasAttribute for null.
GetAttribute(attrs, name) ==
  IF HasAttribute(attrs, name)
    THEN attrs[CHOOSE i \in DOMAIN attrs : attrs[i].name = name].value
    ELSE <<>>

SetAttribute(attrs, name, value) ==
  IF HasAttribute(attrs, name)
    THEN [i \in DOMAIN attrs |-> IF attrs[i].name = name THEN Attr(name, value) ELSE attrs[i]]
    ELSE attrs \o <<Attr(name, value)>>

RemoveAttribute(attrs, name) == SelectSeq(attrs, LAMBDA a : a.name # name)

\* The CSS properties and text-align keywords the style object accepts.
CssProperties == {"text-align", "color", "width", "display", "margin", "float"}

TextAlignKeywords == {"left", "right", "center", "justify", "start", "end"}

\* One declaration of a style attribute as the style object reads it, or <<>>.
CssDeclarationOf(name, value) ==
  IF Len(name) = 1 /\ name[1] \in CssProperties /\ value # <<>>
       /\ (name[1] = "text-align" => Len(value) = 1 /\ value[1] \in TextAlignKeywords)
    THEN <<[name |-> name[1], value |-> value]>>
    ELSE <<>>

CssDeclarationParts(parts) ==
  CssDeclarationOf(Trim(parts[1]), IF Len(parts) = 2 THEN Trim(parts[2]) ELSE <<>>)

CssDeclaration(piece) == CssDeclarationParts(Split(piece, ":"))

\* A later declaration of a property replaces an earlier one.
RECURSIVE CssDedupe(_)
CssDedupe(decls) ==
  IF decls = <<>> THEN <<>>
  ELSE IF \E i \in 2..Len(decls) : decls[i].name = decls[1].name
    THEN CssDedupe(Tail(decls))
    ELSE <<decls[1]>> \o CssDedupe(Tail(decls))

CssParsePieces(pieces) ==
  CssDedupe(Flatten([i \in DOMAIN pieces |-> CssDeclaration(pieces[i])]))

CssParse(value) == CssParsePieces(Split(value, ";"))

CssSerialize(decls) ==
  Flatten([i \in DOMAIN decls |->
    (IF i > 1 THEN <<" ">> ELSE <<>>) \o <<decls[i].name, ":", " ">> \o decls[i].value \o <<";">>])

\* element.style.textAlign = value
\* The declarations of a style object after one property is set.
CssSet(decls, d) ==
  IF \E i \in DOMAIN decls : decls[i].name = d.name
    THEN [i \in DOMAIN decls |-> IF decls[i].name = d.name THEN d ELSE decls[i]]
    ELSE decls \o <<d>>

\* element.style.textAlign = v for a trimmed v: other values are ignored.
setTextAlignTrimmed(attrs, v) ==
  IF Len(v) = 1 /\ v[1] \in TextAlignKeywords
    THEN SetAttribute(attrs, STYLE_ATTRIBUTE,
                      CssSerialize(CssSet(CssParse(GetAttribute(attrs, STYLE_ATTRIBUTE)),
                                          [name |-> "text-align", value |-> v])))
    ELSE attrs

setTextAlign(attrs, value) == setTextAlignTrimmed(attrs, Trim(value))

(***************************************************************************)
(* filter.js                                                               *)
(***************************************************************************)
\* Block type HTML elements (common.js), as lower-cased tag names.
headingElements == {"h1", "h2", "h3", "h4"}

blockElements == {"blockquote", "hr", "p", "ol", "ul"} \cup headingElements

\* One declaration as filterStyles splits it; value is undefined without a colon.
StylePropOf(prop) ==
  [name |-> Trim(prop[1]),
   defined |-> Len(prop) >= 2,
   value |-> IF Len(prop) >= 2 THEN prop[2] ELSE <<>>]

StyleProp(piece) == StylePropOf(Split(piece, ":"))

\* The style string of the declarations kept, joined with no separator.
StyleString(kept) ==
  Flatten([i \in DOMAIN kept |->
    <<kept[i].name[1], ":", " ">> \o Trim(kept[i].value) \o <<";">>])

\* node.setAttribute(STYLE_ATTRIBUTE, styles), or removeAttribute when empty.
setStyles(attrs, styles) ==
  IF styles # <<>>
    THEN SetAttribute(attrs, STYLE_ATTRIBUTE, styles)
    ELSE RemoveAttribute(attrs, STYLE_ATTRIBUTE)

\* The second filter and the map of filterStyles: value.trim() throws for a
\* permitted declaration without a colon.
filterPermitted(attrs, permitted) ==
  IF \E i \in DOMAIN permitted : ~permitted[i].defined
    THEN [thrown |-> TRUE, attrs |-> attrs]
    ELSE [thrown |-> FALSE,
          attrs |-> setStyles(attrs,
                      StyleString(SelectSeq(permitted, LAMBDA st :
                        st.name[1] # "text-align" \/ Trim(st.value) # <<"left">>)))]

\* The split, the map and the first filter of filterStyles.
filterStyleValue(attrs, styleAttribute, allowedStyles) ==
  IF styleAttribute = <<>>
    THEN [thrown |-> FALSE, attrs |-> attrs]
    ELSE filterPermitted(attrs,
           SelectSeq([i \in DOMAIN Split(styleAttribute, ";") |->
                        StyleProp(Split(styleAttribute, ";")[i])],
                     LAMBDA st : Len(st.name) = 1 /\ Includes(allowedStyles, st.name[1])))

\* filterStyles(node, allowedStyles) on the node's attributes.
filterStyles(attrs, allowedStyles) ==
  filterStyleValue(attrs, GetAttribute(attrs, STYLE_ATTRIBUTE), allowedStyles)

\* replaceNode(node, tag, copyAttributes): the element that takes the node's place.
\* node.innerHTML || node.textContent || node.outerHTML
replaceContent(inner, text, outer) ==
  IF inner # <<>> THEN inner ELSE IF text # <<>> THEN text ELSE outer

replaceNode(node, tag, copyAttributes) ==
  Elem(tag,
       IF copyAttributes /\ node.type = "el" THEN node.attrs ELSE <<>>,
       ParseIn(tag,
               replaceContent(IF node.type = "el" THEN innerHTML(node) ELSE <<>>,
                              textContent(node),
                              IF node.type = "el" THEN outerHTML(node)
                                                  ELSE <<Chr("undefined")>>)))

\* One attribute of the loop below: the element's attributes after it, where
\* aligned carries the text-align style migrated from a deprecated align.
filterAttribute(cur, aligned, attributeName, allowedTag) ==
  IF Includes(allowedTag.attributes, attributeName)
    THEN [thrown |-> FALSE, attrs |-> cur]
  ELSE IF attributeName = STYLE_ATTRIBUTE /\ allowedTag.styles # <<>>
    THEN filterStyles(aligned, allowedTag.styles)
  ELSE [thrown |-> FALSE, attrs |-> RemoveAttribute(aligned, attributeName)]

\* The loop of filterContent over the attributes of an allowed element.
RECURSIVE filterAttributes(_, _, _, _, _)
filterAttributesFrom(r, attributes, i, allowedTag, deprecatedAlignAttribute) ==
  IF r.thrown THEN r
  ELSE filterAttributes(r.attrs, attributes, i + 1, allowedTag,
                        deprecatedAlignAttribute)

filterAttributes(cur, attributes, i, allowedTag, deprecatedAlignAttribute) ==
  IF i > Len(attributes) THEN [thrown |-> FALSE, attrs |-> cur]
  ELSE filterAttributesFrom(
         filterAttribute(cur,
                         IF attributes[i].name = ALIGN_ATTRIBUTE
                            /\ deprecatedAlignAttribute # <<"left">>
                           THEN setTextAlign(cur, deprecatedAlignAttribute)
                           ELSE cur,
                         attributes[i].name, allowedTag),
         attributes, i, allowedTag, deprecatedAlignAttribute)

\* parentNode.style.textAlign = v, once per child that asked for it.
RECURSIVE setTextAligns(_, _)
setTextAligns(attrs, values) ==
  IF values = <<>> THEN attrs
  ELSE setTextAligns(setTextAlign(attrs, Head(values)), Tail(values))

RECURSIVE filterContent(_, _, _)
\* A disallowed element is unwrapped: its filtered children take its place,
\* and carry its align attribute as a text-align style.
unwrapNode(kids, parentTag, hasAlign, deprecatedAlignAttribute) ==
  IF ~hasAlign
    THEN [thrown |-> FALSE, nodes |-> kids, parentAlign |-> <<>>]
  ELSE IF parentTag = "li"
    THEN [thrown |-> FALSE, nodes |-> kids,
          parentAlign |-> <<deprecatedAlignAttribute>>]
  ELSE IF \E j \in DOMAIN kids : kids[j].type # "el"
    THEN [thrown |-> TRUE, nodes |-> <<>>, parentAlign |-> <<>>]
  ELSE [thrown |-> FALSE,
        nodes |-> [j \in DOMAIN kids |->
                     [kids[j] EXCEPT
                        !.attrs = setTextAlign(@, deprecatedAlignAttribute)]],
        parentAlign |-> <<>>]

\* An allowed element stays, with the attributes r the attribute loop left,
\* or is replaced by its alias.
keepNode(tag, allowedTag, r, kids) ==
  IF r.thrown THEN [thrown |-> TRUE, nodes |-> <<>>, parentAlign |-> <<>>]
  ELSE [thrown |-> FALSE,
        nodes |-> IF allowedTag.alias # ""
                    THEN <<replaceNode(Elem(tag, r.attrs, kids), allowedTag.alias, TRUE)>>
                    ELSE <<Elem(tag, r.attrs, kids)>>,
        parentAlign |-> <<>>]

\* The element case of filterContent's loop, after the recursive call on the
\* element's children returned kids.
filterElement(tag, attributes, kids, parentTag, allowed) ==
  IF tag \in DOMAIN allowed
    THEN keepNode(tag, allowed[tag],
                  filterAttributes(attributes, attributes, 1, allowed[tag],
                                   GetAttribute(attributes, ALIGN_ATTRIBUTE)),
                  kids)
  ELSE IF tag = "style"
    THEN [thrown |-> FALSE, nodes |-> <<>>, parentAlign |-> <<>>]
  ELSE unwrapNode(kids, parentTag, HasAttribute(attributes, ALIGN_ATTRIBUTE),
                  GetAttribute(attributes, ALIGN_ATTRIBUTE))

\* deep is the result of filterContent on the element's own children.
filterDeep(childNode, parentTag, allowed, deep) ==
  IF deep.thrown THEN [thrown |-> TRUE, nodes |-> <<>>, parentAlign |-> <<>>]
  ELSE filterElement(childNode.tag,
                     setTextAligns(childNode.attrs, deep.parentAlign),
                     deep.kids, parentTag, allowed)

\* One child of filterContent's loop: the nodes left in its place, and the
\* text-align values it wrote on its parent list item.
filterChild(childNode, parentTag, allowed) ==
  IF childNode.type = "comment"
    THEN [thrown |-> FALSE, nodes |-> <<>>, parentAlign |-> <<>>]
  ELSE IF childNode.type = "text"
    THEN [thrown |-> FALSE, nodes |-> <<childNode>>, parentAlign |-> <<>>]
  ELSE filterDeep(childNode, parentTag, allowed,
                  filterContent(childNode.kids, childNode.tag, allowed))

RECURSIVE filterFrom(_, _, _, _, _)
\* The loop of filterContent after child i left r.
filterNext(children, i, parentTag, allowed, acc, r) ==
  IF r.thrown THEN [acc EXCEPT !.thrown = TRUE]
  ELSE filterFrom(children, i + 1, parentTag, allowed,
                  [thrown |-> FALSE,
                   kids |-> acc.kids \o r.nodes,
                   parentAlign |-> acc.parentAlign \o r.parentAlign])

filterFrom(children, i, parentTag, allowed, acc) ==
  IF i > Len(children) THEN acc
  ELSE filterNext(children, i, parentTag, allowed, acc,
                  filterChild(children[i], parentTag, allowed))

\* filterContent(node, allowedTags) on the children of a node with tag parentTag.
filterContent(children, parentTag, allowed) ==
  filterFrom(children, 1, parentTag, allowed,
             [thrown |-> FALSE, kids |-> <<>>, parentAlign |-> <<>>])

trimText(text) == TrimHtml(text)

\* cleanContent testing an element before its children are cleaned.
RECURSIVE cleanContentParentFirst(_, _)
cleanContentParentFirst(children, allowed) ==
  Flatten([i \in DOMAIN children |->
    IF children[i].type # "el" THEN <<children[i]>>
    ELSE IF children[i].tag \in DOMAIN allowed /\ ~allowed[children[i].tag].isEmpty
              /\ trimText(innerHTML(children[i])) = <<>>
      THEN <<>>
      ELSE <<[children[i] EXCEPT !.kids = cleanContentParentFirst(@, allowed)]>>])

\* cleanContent(node, allowedTags) on the children of node.
RECURSIVE cleanContent(_, _)
cleanContent(children, allowed) ==
  Flatten([i \in DOMAIN children |->
    IF children[i].type # "el" THEN <<children[i]>>
    ELSE LET childNode == [children[i] EXCEPT !.kids = cleanContent(@, allowed)]
             tag == childNode.tag
         IN IF tag \in DOMAIN allowed /\ ~allowed[tag].isEmpty
                 /\ trimText(innerHTML(childNode)) = <<>>
              THEN <<>>
              ELSE <<childNode>>])

\* childNode.previousElementSibling among the nodes before it (0: none).
PreviousElement(out) ==
  LET S == {j \in DOMAIN out : out[j].type = "el"}
  IN IF S = {} THEN 0 ELSE CHOOSE j \in S : \A m \in S : m <= j

\* wrapTextNodes giving every node that is not a block element a paragraph
\* of its own.
RECURSIVE wrapFromEach(_, _, _, _)
wrapFromEach(children, i, out, appendToPrev) ==
  IF i > Len(children) THEN out
  ELSE IF children[i].type # "text" /\ children[i].tag \in blockElements
    THEN wrapFromEach(children, i + 1, out \o <<children[i]>>, FALSE)
  ELSE wrapFromEach(children, i + 1,
                    out \o <<replaceNode(children[i], "p", FALSE)>>, FALSE)

RECURSIVE wrapFrom(_, _, _, _)
wrapFrom(children, i, out, appendToPrev) ==
  IF i > Len(children) THEN out
  ELSE LET childNode == children[i]
           prev == PreviousElement(out)
       IN IF childNode.type # "text" /\ childNode.tag \in blockElements
            THEN wrapFrom(children, i + 1, out \o <<childNode>>, FALSE)
          ELSE IF appendToPrev
            THEN wrapFrom(children, i + 1,
                          IF prev > 0
                            THEN [out EXCEPT ![prev].kids = @ \o <<childNode>>]
                            ELSE out \o <<childNode>>,
                          appendToPrev)
          ELSE wrapFrom(children, i + 1, out \o <<replaceNode(childNode, "p", FALSE)>>,
                        TRUE)

\* wrapTextNodes(node) on the children of node.
wrapTextNodes(children) == wrapFrom(children, 1, <<>>, FALSE)

\* buildFragment(html): template.innerHTML = html.trim()
buildFragment(html) == ParseIn("template", TrimHtml(html))

\* prepareContent(content, allowedTags, filterOnly): the string returned, or thrown.
\* prepareContent after filterContent left filtered.
prepareFiltered(filtered, allowed, only) ==
  IF filtered.thrown THEN [thrown |-> TRUE, html |-> <<>>]
  ELSE [thrown |-> FALSE,
        html |-> IF only THEN Serialize(filtered.kids, FALSE)
                 ELSE Serialize(cleanContent(wrapTextNodes(filtered.kids), allowed),
                                FALSE)]

prepareContent(html, allowed, only) ==
  prepareFiltered(filterContent(buildFragment(html), "", allowed), allowed, only)

(***************************************************************************)
(* The inputs                                                              *)
(***************************************************************************)
\* Longest input, in atoms.
MaxLen == 3

Alphabet ==
  { Chr("x"), Chr(" "),
    Open("p", <<>>), Close("p"),
    Open("b", <<>>), Close("b"),
    Open("div", <<Attr("align", <<"center">>)>>),
    Open("img", <<Attr("src", <<"u">>), Attr("onerror", <<"e">>)>>),
    Open("style", <<>>),
    Cmt("c"),
    Escape(Open("img", <<Attr("src", <<"u">>), Attr("onerror", <<"e">>)>>)),
    Escape(Cmt("c")) }

\* The inputs the documentation works through: atoms of Chr here stand for a
\* run of characters without markup or white space.
ScriptExample ==
  <<Open("script", <<>>), Chr("alert(1)"), Close("script"), Chr("safe")>>

DivExample ==
  <<Open("div", <<Attr("align", <<"center">>)>>), Chr("x"), Close("div")>>

\* <p style="...">x</p>
StyledParagraph(style) ==
  <<Open("p", <<Attr("style", style)>>), Chr("x"), Close("p")>>

StyleValues ==
  { <<"color", ":", "red", ";", "text-align", ":", "center">>,
    <<"text-align", ":", "right", ";", "color", ":", "red", ";">>,
    <<"text-align", ":", "left">>,
    <<"color", ":", "red">>,
    <<>> }

\* <div align="left"><p>x</p></div> and <p align="left">x</p>
LeftAlignedDiv ==
  <<Open("div", <<Attr("align", <<"left">>)>>), Open("p", <<>>), Chr("x"),
    Close("p"), Close("div")>>

LeftAlignedParagraph ==
  <<Open("p", <<Attr("align", <<"left">>)>>), Chr("x"), Close("p")>>

\* <img align="right" style="width: 1px" src="u"> and the same element with
\* the style attribute written before the align attribute.
AlignFirstImage ==
  <<Open("img", <<Attr("align", <<"right">>),
                  Attr("style", <<"width", ":", " ", "1px">>),
                  Attr("src", <<"u">>)>>)>>

StyleFirstImage ==
  <<Open("img", <<Attr("style", <<"width", ":", " ", "1px">>),
                  Attr("align", <<"right">>),
                  Attr("src", <<"u">>)>>)>>

\* <div><style>css</style>x</div>, and the text &lt;style&gt;css&lt;/style&gt;
StyleInDiv ==
  <<Open("div", <<>>), Open("style", <<>>), Chr("css"), Close("style"), Chr("x"),
    Close("div")>>

EscapedStyle ==
  <<Escape(Open("style", <<>>)), Chr("css"), Escape(Close("style"))>>

\* Style values with a declaration without colon, and with stray separators.
MalformedStyleValues ==
  { <<"text-align">>,
    <<"color", ":", "red", ";", "text-align">>,
    <<";", "text-align", ":", "center", ";", ";">> }

Examples ==
  {ScriptExample, DivExample, LeftAlignedDiv, LeftAlignedParagraph,
   AlignFirstImage, StyleFirstImage, StyleInDiv, EscapedStyle}
    \cup {StyledParagraph(v) : v \in MalformedStyleValues}
    \cup {StyledParagraph(v) : v \in StyleValues}

Inputs ==
  {h \in UNION {[1..n -> Alphabet] : n \in 0..MaxLen} : WellNested(h)} \cup Examples

\* The options of init(): a tool list and custom tag declarations.
Options ==
  { [tools |-> <<>>, customTags |-> <<>>],
    [tools |-> <<"format", "|", "bold", "indent", "image">>, customTags |-> <<>>],
    [tools |-> <<"bold">>,
     customTags |-> <<Custom(<<"div">>, <<>>, <<>>, FALSE)>>] }

(***************************************************************************)
(* DOMReady (utils.js) and the functions given to it                       *)
(***************************************************************************)
MaxCalls == 3

\* A function given to DOMReady: fn names it, n numbers the API calls in the
\* order they are made (0 for the functions of the script itself), and state
\* is document.readyState when DOMReady received it.
Callback(fn, n, state) == [fn |-> fn, n |-> n, state |-> state]

\* The functions the script gives to DOMReady while it is evaluated: that of
\* toolbar.js, which core.js imports, then bootstrap.
ScriptCallbacks == <<"embedSVGIcons", "bootstrap">>

\* DOMReady with the listener put before the registered ones.
DOMReadyFirst(state, ls, rn, callback) ==
  IF state # "loading"
    THEN [listeners |-> ls, ran |-> Append(rn, callback)]
    ELSE [listeners |-> <<callback>> \o ls, ran |-> rn]

\* DOMReady(fn, args): fn runs at once unless the document is loading, and is
\* otherwise added to the listeners of DOMContentLoaded.
DOMReady(state, ls, rn, callback) ==
  IF state # "loading"
    THEN [listeners |-> ls, ran |-> Append(rn, callback)]
    ELSE [listeners |-> Append(ls, callback), ran |-> rn]

\* DOMReady after an earlier DOMReady left r.
DOMReadyAfter(r, state, callback) == DOMReady(state, r.listeners, r.ran, callback)

\* The script was evaluated in a loaded document: its functions have run.
PageReady ==
  /\ readyState = "complete"
  /\ loaded = TRUE
  /\ fired = TRUE
  /\ listeners = <<>>
  /\ ran = [i \in DOMAIN ScriptCallbacks |-> Callback(ScriptCallbacks[i], 0, "complete")]
  /\ calls = 0

(***************************************************************************)
(* The page before any editor exists                                       *)
(***************************************************************************)
\* The textarea fields of the document, in document order.
Fields == {1, 2}

\* A field without a wrapper before it.
\* dark: the wrapper has the class wysi-darkmode.
NoEditor == [live |-> FALSE, wid |-> 0, html |-> <<>>, dark |-> FALSE]

\* What an event handler did: the default action prevented or run, the strings
\* given to execCommand('insertHTML'), and the textarea updates, change events
\* and onChange calls in their order.
Event(op, field) ==
  [op |-> op, field |-> field, el |-> {}, html |-> FALSE, pasted |-> <<>>,
   prevented |-> FALSE, raw |-> FALSE, inserted |-> <<>>, thrown |-> FALSE,
   log |-> <<>>]

NoPage ==
  /\ objects = <<>>
  /\ instances = <<>>
  /\ nextId = 0
  /\ editors = [f \in Fields |-> NoEditor]
  /\ textareas = [f \in Fields |-> <<>>]
  /\ isFirefox = FALSE
  /\ last = Event("none", 0)
  /\ events = 0

(***************************************************************************)
(* prepareContent, step by step                                            *)
(***************************************************************************)
Init ==
  /\ NoPage
  /\ PageReady
  /\ content \in Inputs
  /\ \E o \in Options :
       /\ tools = o.tools
       /\ customTags = o.customTags
       /\ allowedTags = initAllowedTags(o.tools, o.customTags)
  /\ filterOnly \in BOOLEAN
  /\ pc = "start"
  /\ fragment = <<>>
  /\ result = <<>>

\* const fragment = buildFragment(content)
BuildFragment ==
  /\ pc = "start"
  /\ fragment' = buildFragment(content)
  /\ pc' = "parsed"
  /\ UNCHANGED <<content, allowedTags, filterOnly, result, optionVars, pageVars, readyVars>>

\* filterContent(fragment, allowedTags); an exception leaves prepareContent.
FilterContent ==
  /\ pc = "parsed"
  /\ LET r == filterContent(fragment, "", allowedTags)
     IN IF r.thrown
          THEN pc' = "thrown" /\ UNCHANGED fragment
          ELSE pc' = "filtered" /\ fragment' = r.kids
  /\ UNCHANGED <<content, allowedTags, filterOnly, result, optionVars, pageVars, readyVars>>

\* The wrapping stage entered without testing filterOnly.
WrapTextNodesAlways ==
  /\ pc = "filtered"
  /\ fragment' = wrapTextNodes(fragment)
  /\ pc' = "wrapped"
  /\ UNCHANGED <<content, allowedTags, filterOnly, result, optionVars, pageVars, readyVars>>

\* if (!filterOnly) wrapTextNodes(fragment)
WrapTextNodes ==
  /\ pc = "filtered"
  /\ ~filterOnly
  /\ fragment' = wrapTextNodes(fragment)
  /\ pc' = "wrapped"
  /\ UNCHANGED <<content, allowedTags, filterOnly, result, optionVars, pageVars, readyVars>>

\* cleanContent(fragment, allowedTags)
CleanContent ==
  /\ pc = "wrapped"
  /\ fragment' = cleanContent(fragment, allowedTags)
  /\ pc' = "cleaned"
  /\ UNCHANGED <<content, allowedTags, filterOnly, result, optionVars, pageVars, readyVars>>

\* container.appendChild(fragment); return container.innerHTML
Return ==
  /\ \/ pc = "filtered" /\ filterOnly
     \/ pc = "cleaned"
  /\ result' = Serialize(fragment, FALSE)
  /\ pc' = "done"
  /\ UNCHANGED <<content, allowedTags, filterOnly, fragment, optionVars, pageVars, readyVars>>

Next == BuildFragment \/ FilterContent \/ WrapTextNodes \/ CleanContent \/ Return

Spec == Init /\ [][Next]_vars

(***************************************************************************)
(* The allow-list builder, step by step: init() of core.js up to the       *)
(* custom tags                                                             *)
(***************************************************************************)
\* Longest tool list.
MaxTools == 2

ToolNames ==
  {"format", "bold", "image", "indent", "|", Group, "nosuchtool", "constructor"}

ToolLists == UNION {[1..n -> ToolNames] : n \in 0..MaxTools}

\* A declaration of customTags without a tags list.
NoTags ==
  [hasTags |-> FALSE, tags |-> <<>>, attributes |-> <<"id">>, styles |-> <<>>,
   isEmpty |-> TRUE]

CustomLists ==
  { <<>>,
    <<NoTags>>,
    <<Custom(<<"div">>, <<>>, <<>>, FALSE)>>,
    <<Custom(<<"strong", "p">>, <<"class">>, <<"color">>, TRUE), NoTags>>,
    <<Custom(<<"b", "div">>, <<"id">>, <<>>, FALSE),
      Custom(<<"div">>, <<>>, <<"color">>, TRUE)>> }

InitAllow ==
  /\ NoPage
  /\ PageReady
  /\ tools \in ToolLists
  /\ customTags \in CustomLists
  /\ allowedTags = settingsAllowedTags
  /\ pc = "config"
  /\ content = <<>>
  /\ filterOnly = FALSE
  /\ fragment = <<>>
  /\ result = <<>>

\* const allowedTags = enableTags(tools); an exception leaves init().
EnableTags ==
  /\ pc = "config"
  /\ IF enableTagsThrows(tools)
       THEN pc' = "thrown" /\ UNCHANGED allowedTags
       ELSE pc' = "enabled" /\ allowedTags' = enableTags(tools)
  /\ UNCHANGED <<content, filterOnly, fragment, result, optionVars, pageVars, readyVars>>

\* customTags.forEach(custom => ...)
AddCustomTags ==
  /\ pc = "enabled"
  /\ allowedTags' = addCustomTags(allowedTags, customTags, 1)
  /\ pc' = "ready"
  /\ UNCHANGED <<content, filterOnly, fragment, result, optionVars, pageVars, readyVars>>

NextAllow == EnableTags \/ AddCustomTags

SpecAllow == InitAllow /\ [][NextAllow]_vars

(***************************************************************************)
(* The editor instances of a page (core.js): Wysi(options), Wysi.destroy,  *)
(* and the paste and input listeners                                       *)
(***************************************************************************)
\* Events handled in one run.
MaxEvents == 3

\* Option objects the caller creates.
MaxObjects == 2

\* options.tools, with and without a callback.
EditorToolLists == {<<"bold">>, <<"format", "image">>}

\* options.el: the fields a selector matches.
Selectors == {{1}, {2}, {1, 2}}

\* The values of the textareas when the page loads.
FieldValues == {<<Chr("x")>>, DivExample}

\* text/html clipboard contents.
Clipboard == {<<Chr("x")>>, <<Open("b", <<>>), Chr("x"), Close("b")>>, DivExample}

\* The content of an editable region after an edit by the user or a command.
Typed ==
  { <<Open("p", <<>>), Chr("x"), Close("p")>>,
    <<Open("h1", <<>>), Chr("x"), Close("h1")>>,
    DivExample }

placeholderClass == "wysi-fragment-placeholder"

\* <h1 class="..."><br></h1><p class="..."><br></p>
splitter ==
  <<Open("h1", <<Attr("class", <<placeholderClass>>)>>), Open("br", <<>>), Close("h1"),
    Open("p", <<Attr("class", <<placeholderClass>>)>>), Open("br", <<>>), Close("p")>>

\* element.innerHTML = html, read back as element.innerHTML.
SetInnerHTML(html) == Serialize(ParseIn("div", html), FALSE)

\* The allow-list reachable as instances[id].allowedTags.
AllowListOf(id) == objects[instances[id]].allowedTags

\* configure(instance, options) on the wrapper of an editor: the darkMode key
\* toggles the class wysi-darkmode.
configure(instance, options) == [instance EXCEPT !.dark = options.darkMode]

\* The body of targetEls.forEach that gives every target field a new editor,
\* whether or not it has one.
initFieldAlways(st, field, obj, allowed, value) ==
  IF st.thrown THEN st
  ELSE [objects |-> [st.objects EXCEPT ![obj].allowedTags = allowed,
                                       ![obj].list = st.nextId + 1],
        instances |-> [i \in DOMAIN st.instances \cup {st.nextId} |->
                        IF i = st.nextId THEN obj ELSE st.instances[i]],
        nextId |-> st.nextId + 1,
        editors |-> IF value.thrown THEN st.editors
                    ELSE [st.editors EXCEPT ![field] =
                            configure([live |-> TRUE, wid |-> st.nextId,
                                       html |-> SetInnerHTML(value.html),
                                       dark |-> FALSE],
                                      st.objects[obj])],
        thrown |-> value.thrown]

\* The body of targetEls.forEach in init() for one field; st carries the
\* objects, the registry, nextId and the editors, and whether an exception
\* has left init().
initField(st, field, obj, allowed, value) ==
  IF st.thrown THEN st
  ELSE IF st.editors[field].live
    THEN [st EXCEPT !.editors[field] = configure(@, st.objects[obj])]
  ELSE [objects |-> [st.objects EXCEPT ![obj].allowedTags = allowed,
                                       ![obj].list = st.nextId + 1],
        instances |-> [i \in DOMAIN st.instances \cup {st.nextId} |->
                        IF i = st.nextId THEN obj ELSE st.instances[i]],
        nextId |-> st.nextId + 1,
        editors |-> IF value.thrown THEN st.editors
                    ELSE [st.editors EXCEPT ![field] =
                            configure([live |-> TRUE, wid |-> st.nextId,
                                       html |-> SetInnerHTML(value.html),
                                       dark |-> FALSE],
                                      st.objects[obj])],
        thrown |-> value.thrown]

RECURSIVE initFields(_, _, _, _, _)
initFields(st, field, targetEls, obj, allowed) ==
  IF field \notin Fields THEN st
  ELSE initFields(IF field \in targetEls
                    THEN initField(st, field, obj, allowed,
                                   prepareContent(textareas[field], allowed, FALSE))
                    ELSE st,
                  field + 1, targetEls, obj, allowed)

\* init(options) for the option object obj of objs.
init(objs, obj, targetEls) ==
  initFields([objects |-> objs, instances |-> instances, nextId |-> nextId,
              editors |-> editors, thrown |-> FALSE],
             1, targetEls, obj,
             initAllowedTags(objs[obj].tools, objs[obj].customTags))

\* The state init() leaves.
Initialized(st, el) ==
  /\ objects' = st.objects
  /\ instances' = st.instances
  /\ nextId' = st.nextId
  /\ editors' = st.editors
  /\ last' = [Event("init", 0) EXCEPT !.thrown = st.thrown, !.el = el]
  /\ events' = events + 1
  /\ UNCHANGED <<textareas, isFirefox, pipelineVars, optionVars, readyVars>>

\* Wysi(options) with an object the caller just made.
WysiNew ==
  /\ events < MaxEvents
  /\ Len(objects) < MaxObjects
  /\ \E t \in EditorToolLists, cb \in BOOLEAN, dark \in BOOLEAN, el \in Selectors :
       Initialized(init(Append(objects,
                               [tools |-> t, customTags |-> <<>>, onChange |-> cb,
                                darkMode |-> dark, allowedTags |-> <<>>, list |-> 0]),
                        Len(objects) + 1, el),
                   el)

\* Wysi(options) with an object given to an earlier call, after the caller
\* set its el and tools properties.
WysiAgain ==
  /\ events < MaxEvents
  /\ \E obj \in DOMAIN objects, t \in EditorToolLists, el \in Selectors :
       Initialized(init([objects EXCEPT ![obj].tools = t], obj, el), el)

\* Wysi.destroy(selector)
Destroy ==
  /\ events < MaxEvents
  /\ \E el \in Selectors :
       LET gone == {f \in el : editors[f].live}
       IN /\ instances' = [i \in DOMAIN instances \ {editors[f].wid : f \in gone} |->
                             instances[i]]
          /\ editors' = [f \in Fields |-> IF f \in gone THEN NoEditor ELSE editors[f]]
          /\ last' = [Event("destroy", 0) EXCEPT !.el = el]
  /\ events' = events + 1
  /\ UNCHANGED <<objects, nextId, textareas, isFirefox, pipelineVars, optionVars, readyVars>>

\* editor.querySelectorAll('.' + placeholderClass).forEach(fragment => fragment.remove())
RECURSIVE RemovePlaceholders(_)
RemovePlaceholders(nodes) ==
  Flatten([i \in DOMAIN nodes |->
    IF nodes[i].type # "el" THEN <<nodes[i]>>
    ELSE IF GetAttribute(nodes[i].attrs, "class") = <<placeholderClass>> THEN <<>>
    ELSE <<[nodes[i] EXCEPT !.kids = RemovePlaceholders(@)]>>])

\* heading.firstElementChild is a block element.
FirstChildIsBlock(kids) ==
  \E i \in DOMAIN kids :
    /\ kids[i].type = "el"
    /\ kids[i].tag \in blockElements
    /\ \A j \in 1..(i - 1) : kids[j].type # "el"

\* The headings of the editor whose first element child is a block element are
\* replaced by their children.
RECURSIVE UnwrapHeadings(_)
UnwrapHeadings(nodes) ==
  Flatten([i \in DOMAIN nodes |->
    IF nodes[i].type # "el" THEN <<nodes[i]>>
    ELSE IF nodes[i].tag \in headingElements /\ FirstChildIsBlock(nodes[i].kids)
      THEN UnwrapHeadings(nodes[i].kids)
      ELSE <<[nodes[i] EXCEPT !.kids = UnwrapHeadings(@)]>>])

\* execCommand('insertHTML', content) with the caret at the end of the editor,
\* and the clean-up after a forced heading split.
InsertHTML(html, inserted, split) ==
  IF split
    THEN Serialize(UnwrapHeadings(RemovePlaceholders(ParseIn("div", html \o inserted))),
                   FALSE)
    ELSE SetInnerHTML(html \o inserted)

\* cleanPastedContent after prepareContent returned or threw r: the editor's
\* content and the record of the event.  When the handler has not prevented
\* it, the browser's default action inserts the clipboard content as it is.
Pasted(field, pasted, r, split) ==
  IF r.thrown
    THEN /\ editors' = [editors EXCEPT ![field].html = SetInnerHTML(@ \o pasted)]
         /\ last' = [Event("paste", field) EXCEPT !.html = TRUE, !.pasted = pasted,
                                                    !.thrown = TRUE, !.raw = TRUE]
    ELSE /\ editors' = [editors EXCEPT ![field].html =
                          InsertHTML(@, IF split THEN splitter \o r.html \o splitter
                                                 ELSE r.html, split)]
         /\ last' = [Event("paste", field) EXCEPT
                       !.html = TRUE, !.pasted = pasted, !.prevented = TRUE,
                       !.inserted = <<IF split THEN splitter \o r.html \o splitter
                                               ELSE r.html>>]

\* A paste event inside an editor whose clipboard offers text/html; inHeading
\* says that the selection is inside a heading of the editor.
PasteHtml ==
  /\ events < MaxEvents
  /\ \E field \in Fields, pasted \in Clipboard, inHeading \in BOOLEAN :
       /\ editors[field].live
       /\ inHeading => \E i \in DOMAIN editors[field].html :
                         /\ editors[field].html[i].k = "open"
                         /\ editors[field].html[i].tag \in headingElements
       /\ Pasted(field, pasted,
                 prepareContent(pasted, AllowListOf(editors[field].wid), FALSE),
                 inHeading /\ ~isFirefox)
  /\ events' = events + 1
  /\ UNCHANGED <<objects, instances, nextId, textareas, isFirefox, pipelineVars,
                 optionVars, readyVars>>

\* A paste event inside an editor whose clipboard offers no text/html: the
\* handler does nothing and the browser inserts the plain text.
PasteText ==
  /\ events < MaxEvents
  /\ \E field \in Fields :
       /\ editors[field].live
       /\ editors' = [editors EXCEPT ![field].html = SetInnerHTML(@ \o <<Chr("x")>>)]
       /\ last' = [Event("paste", field) EXCEPT !.raw = TRUE]
  /\ events' = events + 1
  /\ UNCHANGED <<objects, instances, nextId, textareas, isFirefox, pipelineVars,
                 optionVars, readyVars>>

\* The input listener after prepareContent returned or threw r.
Changed(field, r, onChange) ==
  IF r.thrown
    THEN /\ UNCHANGED textareas
         /\ last' = [Event("input", field) EXCEPT !.thrown = TRUE]
    ELSE /\ textareas' = [textareas EXCEPT ![field] = r.html]
         /\ last' = [Event("input", field) EXCEPT !.log =
                       <<[e |-> "value", arg |-> r.html], [e |-> "change", arg |-> <<>>]>>
                       \o (IF onChange THEN <<[e |-> "onChange", arg |-> r.html]>>
                                       ELSE <<>>)]

\* An edit leaves typed in an editor and the input event reaches the listener.
Input ==
  /\ events < MaxEvents
  /\ \E field \in Fields, typed \in Typed :
       /\ editors[field].live
       /\ editors' = [editors EXCEPT ![field].html = typed]
       /\ Changed(field,
                  prepareContent(typed, AllowListOf(editors[field].wid), TRUE),
                  objects[instances[editors[field].wid]].onChange)
  /\ events' = events + 1
  /\ UNCHANGED <<objects, instances, nextId, isFirefox, pipelineVars, optionVars, readyVars>>

InitEditor ==
  /\ PageReady
  /\ objects = <<>>
  /\ instances = <<>>
  /\ nextId = 0
  /\ editors = [f \in Fields |-> NoEditor]
  /\ textareas \in [Fields -> FieldValues]
  /\ isFirefox \in BOOLEAN
  /\ last = Event("none", 0)
  /\ events = 0
  /\ content = <<>>
  /\ allowedTags = settingsAllowedTags
  /\ filterOnly = FALSE
  /\ pc = "page"
  /\ fragment = <<>>
  /\ result = <<>>
  /\ tools = <<>>
  /\ customTags = <<>>

NextEditor == WysiNew \/ WysiAgain \/ Destroy \/ PasteHtml \/ PasteText \/ Input

SpecEditor == InitEditor /\ [][NextEditor]_vars

(***************************************************************************)
(* The API while the document loads (core.js, utils.js)                    *)
(***************************************************************************)
\* The listeners and the log DOMReady leaves.
Registered(r) ==
  /\ listeners' = r.listeners
  /\ ran' = r.ran

\* The script is evaluated: DOMReady(embedSVGIcons), DOMReady(bootstrap).
LoadScript ==
  /\ ~loaded
  /\ loaded' = TRUE
  /\ Registered(DOMReadyAfter(DOMReady(readyState, listeners, ran,
                                       Callback(ScriptCallbacks[1], 0, readyState)),
                              readyState, Callback(ScriptCallbacks[2], 0, readyState)))
  /\ UNCHANGED <<readyState, fired, calls, pipelineVars, optionVars, pageVars>>

\* Wysi(options): DOMReady(() => init(options || {}))
CallWysi ==
  /\ loaded
  /\ calls < MaxCalls
  /\ calls' = calls + 1
  /\ Registered(DOMReady(readyState, listeners, ran,
                         Callback("init", calls + 1, readyState)))
  /\ UNCHANGED <<readyState, loaded, fired, pipelineVars, optionVars, pageVars>>

\* Wysi.destroy(selector): DOMReady(methods.destroy, args)
CallDestroy ==
  /\ loaded
  /\ calls < MaxCalls
  /\ calls' = calls + 1
  /\ Registered(DOMReady(readyState, listeners, ran,
                         Callback("destroy", calls + 1, readyState)))
  /\ UNCHANGED <<readyState, loaded, fired, pipelineVars, optionVars, pageVars>>

\* The parser reaches the end of the document.
ParsingDone ==
  /\ readyState = "loading"
  /\ readyState' = "interactive"
  /\ UNCHANGED <<loaded, fired, listeners, ran, calls, pipelineVars, optionVars,
                 pageVars>>

\* DOMContentLoaded is dispatched: its listeners run in the order of their
\* registration.
DOMContentLoaded ==
  /\ readyState = "interactive"
  /\ ~fired
  /\ fired' = TRUE
  /\ ran' = ran \o listeners
  /\ UNCHANGED <<readyState, loaded, listeners, calls, pipelineVars, optionVars,
                 pageVars>>

\* The document and its resources have loaded.
Complete ==
  /\ readyState = "interactive"
  /\ fired
  /\ readyState' = "complete"
  /\ UNCHANGED <<loaded, fired, listeners, ran, calls, pipelineVars, optionVars,
                 pageVars>>

InitReady ==
  /\ NoPage
  /\ readyState = "loading"
  /\ loaded = FALSE
  /\ fired = FALSE
  /\ listeners = <<>>
  /\ ran = <<>>
  /\ calls = 0
  /\ content = <<>>
  /\ allowedTags = settingsAllowedTags
  /\ filterOnly = FALSE
  /\ pc = "document"
  /\ fragment = <<>>
  /\ result = <<>>
  /\ tools = <<>>
  /\ customTags = <<>>

NextReady ==
  LoadScript \/ CallWysi \/ CallDestroy \/ ParsingDone \/ DOMContentLoaded \/ Complete

SpecReady == InitReady /\ [][NextReady]_vars

(***************************************************************************)
(* What the claims speak of                                                *)
(***************************************************************************)
Returned == pc = "done"

\* The start tags of the returned string: one per element of the output.
OutputElements == {i \in DOMAIN result : result[i].k = "open" /\ result[i].esc = 0}

\* A tag the allow-list says must be rewritten to another tag.
IsAliasTag(allowed, tag) ==
  tag \in DOMAIN allowed /\ allowed[tag].alias # "" /\ allowed[tag].alias # tag

\* Every element below nodes, parents before children.
RECURSIVE Elements(_)
Elements(nodes) ==
  Flatten([i \in DOMAIN nodes |->
    IF nodes[i].type = "el" THEN <<nodes[i]>> \o Elements(nodes[i].kids) ELSE <<>>])

\* The names of the declarations of a style attribute value.
StyleNames(value) ==
  LET pieces == Split(value, ";")
  IN {Trim(Split(pieces[i], ":")[1]) : i \in DOMAIN pieces} \ {<<>>}

\* The text of nodes in document order, style elements left out.
RECURSIVE VisibleText(_)
VisibleText(nodes) ==
  Flatten([i \in DOMAIN nodes |->
    IF nodes[i].type = "text" THEN nodes[i].text
    ELSE IF nodes[i].type = "comment" \/ nodes[i].tag = "style" THEN <<>>
    ELSE VisibleText(nodes[i].kids)])

NonWhitespace(text) == SelectSeq(text, LAMBDA a : ~IsSpace(a))

\* C1: in default mode every element of the returned markup has a tag that is
\* a key of the allow-list and is not an alias tag awaiting its rewrite.
C1_TagContainment ==
  (Returned /\ ~filterOnly) =>
    \A i \in OutputElements :
      /\ result[i].tag \in DOMAIN allowedTags
      /\ ~IsAliasTag(allowedTags, result[i].tag)

\* C2: every attribute other than style on an element of the returned markup
\* is a permitted attribute of the element's tag.
C2_AttributeContainment ==
  Returned =>
    \A i \in OutputElements :
      result[i].tag \in DOMAIN allowedTags =>
        \A j \in DOMAIN result[i].attrs :
          \/ result[i].attrs[j].name = STYLE_ATTRIBUTE
          \/ Includes(allowedTags[result[i].tag].attributes, result[i].attrs[j].name)

\* C3: an element of the returned markup whose tag does not permit the style
\* attribute has a style attribute only if its entry permits styles, and then
\* every declaration names a permitted style.
C3_StyleContainment ==
  Returned =>
    \A i \in OutputElements :
      (/\ result[i].tag \in DOMAIN allowedTags
       /\ ~Includes(allowedTags[result[i].tag].attributes, STYLE_ATTRIBUTE)
       /\ HasAttribute(result[i].attrs, STYLE_ATTRIBUTE)) =>
        /\ allowedTags[result[i].tag].styles # <<>>
        /\ \A n \in StyleNames(GetAttribute(result[i].attrs, STYLE_ATTRIBUTE)) :
             Len(n) = 1 /\ Includes(allowedTags[result[i].tag].styles, n[1])

\* C4: the returned markup of default mode holds no comment.
C4_NoComments ==
  (Returned /\ ~filterOnly) =>
    \A i \in DOMAIN result : ~(result[i].k = "cmt" /\ result[i].esc = 0)

\* C5: prepareContent never throws.
C5_Totality == pc # "thrown"

\* C6: in default mode, preparing the returned string again returns it unchanged.
C6_PipelineIdempotence ==
  (Returned /\ ~filterOnly) =>
    prepareContent(result, allowedTags, FALSE) = [thrown |-> FALSE, html |-> result]

\* C7: in filterOnly mode, filtering the returned string again returns it
\* unchanged.
C7_FilterIdempotence ==
  (Returned /\ filterOnly) =>
    prepareContent(result, allowedTags, TRUE) = [thrown |-> FALSE, html |-> result]

\* C8: in default mode every element of the serialized fragment whose tag is
\* in the allow-list and may not be empty has inner markup that is not blank.
C8_NoEmptyElements ==
  (Returned /\ ~filterOnly) =>
    LET els == Elements(fragment)
    IN \A i \in DOMAIN els :
         (els[i].tag \in DOMAIN allowedTags /\ ~allowedTags[els[i].tag].isEmpty) =>
           TrimHtml(Serialize(els[i].kids, els[i].tag \in RawTextTags)) # <<>>

\* C8 witness: the pruner removed something (an element inside a removed
\* element too) and an element that may not be empty is returned.
C8_Witness ==
  /\ Returned /\ ~filterOnly
  /\ LET wrapped == wrapTextNodes(filterContent(buildFragment(content), "", allowedTags).kids)
         before == Elements(wrapped)
         after == Elements(fragment)
     IN /\ Len(before) >= Len(after) + 2
        /\ \E i \in DOMAIN after :
             after[i].tag \in DOMAIN allowedTags /\ ~allowedTags[after[i].tag].isEmpty

\* C9: with no style entry in the allow-list, the non-blank text of the
\* default-mode output is the non-blank text of the parsed input outside
\* style elements.
C9_KeepsText ==
  (Returned /\ ~filterOnly /\ "style" \notin DOMAIN allowedTags) =>
    NonWhitespace(VisibleText(fragment))
      = NonWhitespace(VisibleText(buildFragment(content)))

\* C10: with b registered as an alias of strong, <b>x</b> is returned as
\* <strong>x</strong>.
C10_AliasRewriting ==
  (/\ Returned
   /\ ~filterOnly
   /\ content = <<Open("b", <<>>), Chr("x"), Close("b")>>
   /\ "b" \in DOMAIN allowedTags
   /\ allowedTags["b"].alias = "strong") =>
    result = <<Open("strong", <<>>), Chr("x"), Close("strong")>>

\* C11: with script not allowed, <script>alert(1)</script>safe is returned as
\* the text safe in one paragraph, the script's content gone.
C11_ScriptHandling ==
  (/\ Returned
   /\ ~filterOnly
   /\ content = ScriptExample
   /\ "script" \notin DOMAIN allowedTags) =>
    result = <<Open("p", <<>>), Chr("safe"), Close("p")>>

\* C12: filtering <div align="center">x</div> with div not allowed completes,
\* and the returned markup carries text-align: center on what replaced the div.
C12_AlignOnUnwrap ==
  (content = DivExample /\ "div" \notin DOMAIN allowedTags) =>
    /\ pc # "thrown"
    /\ Returned =>
         /\ \A i \in OutputElements : result[i].tag # "div"
         /\ \E i \in OutputElements :
              GetAttribute(result[i].attrs, STYLE_ATTRIBUTE)
                = <<"text-align", ":", " ", "center", ";">>

\* The declarations of a style value whose property is permitted, in their
\* order, each written prop: value; with nothing between them.
RetainedStyle(value, allowedStyles) ==
  LET pieces == Split(value, ";")
  IN Flatten([i \in DOMAIN pieces |->
       LET prop == Split(pieces[i], ":")
           name == Trim(prop[1])
       IN IF Len(name) = 1 /\ Includes(allowedStyles, name[1]) /\ Len(prop) >= 2
            THEN <<name[1], ":", " ">> \o Trim(prop[2]) \o <<";">>
            ELSE <<>>])

\* C13: a paragraph whose entry permits some styles, and not the style
\* attribute, is returned with exactly its permitted declarations as its
\* style attribute, and without a style attribute when none is retained.
C13_StyleFiltering ==
  \A v \in StyleValues :
    (/\ Returned
     /\ content = StyledParagraph(v)
     /\ "p" \in DOMAIN allowedTags
     /\ allowedTags["p"].styles # <<>>
     /\ ~Includes(allowedTags["p"].attributes, STYLE_ATTRIBUTE)) =>
      result[1].attrs
        = IF RetainedStyle(v, allowedTags["p"].styles) = <<>>
            THEN <<>>
            ELSE <<Attr(STYLE_ATTRIBUTE, RetainedStyle(v, allowedTags["p"].styles))>>

\* C14: the returned string is the serialization of the filtered fragment
\* when filterOnly is set, and otherwise of the fragment filtered, then
\* wrapped, then pruned.
C14_ModeSelection ==
  Returned =>
    result = IF filterOnly
               THEN Serialize(filterContent(buildFragment(content), "", allowedTags).kids,
                              FALSE)
               ELSE Serialize(
                      cleanContent(
                        wrapTextNodes(
                          filterContent(buildFragment(content), "", allowedTags).kids),
                        allowedTags),
                      FALSE)

\* C14 witness: a filterOnly run returned markup that the wrapping and pruning
\* stages would have changed.
C14_Witness ==
  /\ Returned
  /\ filterOnly
  /\ result # Serialize(cleanContent(wrapTextNodes(fragment), allowedTags), FALSE)
  /\ \E i \in DOMAIN fragment : fragment[i].type = "text"

\* C15: a paste of text/html inside an editor is handled with the default
\* action prevented, and what is inserted is prepareContent of the clipboard
\* with the instance's allow-list (between splitters at most); the clipboard
\* HTML never arrives through the default action.
C15_PasteFiltered ==
  (last.op = "paste" /\ last.html) =>
    /\ last.prevented
    /\ ~last.raw
    /\ ~prepareContent(last.pasted, AllowListOf(editors[last.field].wid), FALSE).thrown
    /\ last.inserted
         \in { <<prepareContent(last.pasted, AllowListOf(editors[last.field].wid),
                                FALSE).html>>,
               <<splitter
                   \o prepareContent(last.pasted, AllowListOf(editors[last.field].wid),
                                     FALSE).html
                   \o splitter>> }

\* C16: an input event sets the textarea to prepareContent(editor.innerHTML,
\* allow-list, true), then dispatches change, then calls onChange once with
\* that string when the instance has one.
C16_ChangePropagation ==
  last.op = "input" =>
    /\ ~last.thrown
    /\ textareas[last.field]
         = prepareContent(editors[last.field].html,
                          AllowListOf(editors[last.field].wid), TRUE).html
    /\ last.log
         = <<[e |-> "value", arg |-> textareas[last.field]],
             [e |-> "change", arg |-> <<>>]>>
           \o (IF objects[instances[editors[last.field].wid]].onChange
                 THEN <<[e |-> "onChange", arg |-> textareas[last.field]]>>
                 ELSE <<>>)

\* C17: two distinct live instances have separate registry records and
\* separate allow-list objects.
C17_InstanceIndependence ==
  \A i \in DOMAIN instances : \A j \in DOMAIN instances :
    i # j =>
      /\ instances[i] # instances[j]
      /\ objects[instances[i]].list # objects[instances[j]].list

\* C18: no step changes the allow-list reachable as instances[id].allowedTags
\* of an instance that stays in the registry.
C18_AllowListFixed ==
  [][\A i \in DOMAIN instances :
       i \in DOMAIN instances' =>
         objects'[instances'[i]].allowedTags = objects[instances[i]].allowedTags]_vars

\* A listed tool that declares tags.
DeclaresTags(toolName) == toolName \in DOMAIN toolset /\ toolset[toolName].hasTags

\* C19: enableTags returns for every tool list; what is no tool with tags
\* contributes nothing, and with no such tool the result is the base
\* allow-list: br alone, no attributes, no styles, isEmpty.
C19_UnknownToolsSkipped ==
  /\ pc # "thrown"
  /\ pc = "enabled" =>
       /\ allowedTags = enableTags(SelectSeq(tools, DeclaresTags))
       /\ (\A i \in DOMAIN tools : ~DeclaresTags(tools[i])) =>
            /\ DOMAIN allowedTags = {"br"}
            /\ allowedTags["br"]
                 = [attributes |-> <<>>, styles |-> <<>>, alias |-> "",
                    isEmpty |-> TRUE, toolName |-> ""]

\* The declarations of customTags that name tag t.
Naming(t) ==
  {i \in DOMAIN customTags : customTags[i].hasTags /\ Includes(customTags[i].tags, t)}

\* C20: after init() the entry of a tag a custom declaration names has the
\* declared attributes, styles and emptiness flag (of the last declaration
\* naming it) and no alias target or tool, whatever a tool registered; a
\* declaration without tags changes nothing.
C20_CustomTags ==
  pc = "ready" =>
    \A t \in DOMAIN allowedTags \cup DOMAIN enableTags(tools) :
      IF Naming(t) = {}
        THEN t \in DOMAIN allowedTags /\ t \in DOMAIN enableTags(tools)
             /\ allowedTags[t] = enableTags(tools)[t]
        ELSE LET custom == customTags[CHOOSE i \in Naming(t) : \A j \in Naming(t) : j <= i]
             IN allowedTags[t]
                  = [attributes |-> custom.attributes, styles |-> custom.styles,
                     alias |-> "", isEmpty |-> custom.isEmpty, toolName |-> ""]

\* C20 witness: init() finished with a declaration naming a tag that a tool
\* had registered with an alias target, and a declaration without tags.
C20_Witness ==
  /\ pc = "ready"
  /\ \E t \in DOMAIN enableTags(tools) :
       /\ Naming(t) # {}
       /\ enableTags(tools)[t].alias # ""
       /\ enableTags(tools)[t].toolName # ""
  /\ \E i \in DOMAIN customTags : ~customTags[i].hasTags

\* C21: after enableTags an entry carries an alias target exactly when its
\* tag is one of the alias tags of the tool that owns it, and the target is
\* then that tool's first tag; the entries of canonical tags, of extra tags
\* and of the tags that are always allowed carry none.
C21_AliasOnlyOnAliasTags ==
  pc = "enabled" =>
    \A t \in DOMAIN allowedTags :
      LET entry == allowedTags[t]
      IN IF entry.toolName # "" /\ Includes(toolset[entry.toolName].alias, t)
           THEN entry.alias = toolset[entry.toolName].tags[1]
           ELSE entry.alias = ""

\* The children of a node grouped as wrapTextNodes meets them: each block
\* element on its own, each maximal run of other nodes together.
RECURSIVE RunsFrom(_, _, _)
RunsFrom(children, i, out) ==
  IF i > Len(children) THEN out
  ELSE IF children[i].type = "el" /\ children[i].tag \in blockElements
    THEN RunsFrom(children, i + 1,
                  Append(out, [block |-> TRUE, nodes |-> <<children[i]>>]))
  ELSE IF out # <<>> /\ ~Last(out).block
    THEN RunsFrom(children, i + 1,
                  [out EXCEPT ![Len(out)].nodes = Append(@, children[i])])
  ELSE RunsFrom(children, i + 1,
                Append(out, [block |-> FALSE, nodes |-> <<children[i]>>]))

Runs(children) == RunsFrom(children, 1, <<>>)

\* C22: the paragraph wrapTextNodes creates for a top-level node that is not
\* a block element holds that node itself, with its tag, attributes and text
\* (followed by the nodes of the same run that are appended to it).
C22_WrappingKeepsNode ==
  [][(pc = "filtered" /\ pc' = "wrapped") =>
       \A i \in DOMAIN Runs(fragment) :
         ~Runs(fragment)[i].block =>
           /\ i \in DOMAIN fragment'
           /\ fragment'[i].type = "el"
           /\ fragment'[i].tag = "p"
           /\ fragment'[i].kids = Runs(fragment)[i].nodes]_vars

\* C23: wrapTextNodes leaves one child per block element and per maximal run
\* of other nodes, in the original order: a block element is the node it was,
\* descendants included, a run has become one paragraph, and so every child
\* is an element with a block-level tag; the text "x x" becomes <p>x x</p>.
C23_OneParagraphPerRun ==
  [][(pc = "filtered" /\ pc' = "wrapped") =>
       /\ Len(fragment') = Len(Runs(fragment))
       /\ \A i \in DOMAIN fragment' :
            /\ fragment'[i].type = "el"
            /\ fragment'[i].tag \in blockElements
            /\ IF Runs(fragment)[i].block
                 THEN fragment'[i] = Runs(fragment)[i].nodes[1]
                 ELSE fragment'[i].tag = "p"
       /\ fragment = <<Text(<<Chr("x"), Chr(" "), Chr("x")>>)>> =>
            fragment' = <<Elem("p", <<>>, <<Text(<<Chr("x"), Chr(" "), Chr("x")>>)>>)>>]_vars

\* C23 witness: wrapTextNodes has run on children holding a block element and
\* a run of two or more other nodes.
C23_Witness ==
  /\ pc = "wrapped"
  /\ \E i \in DOMAIN Runs(filterContent(buildFragment(content), "", allowedTags).kids) :
       Runs(filterContent(buildFragment(content), "", allowedTags).kids)[i].block
  /\ \E i \in DOMAIN Runs(filterContent(buildFragment(content), "", allowedTags).kids) :
       Len(Runs(filterContent(buildFragment(content), "", allowedTags).kids)[i].nodes) > 1

\* C24: no element of the returned markup whose entry leaves the style
\* attribute to the style filter declares text-align: left, whether the
\* input had the declaration, an align="left" attribute on the element, or
\* one on an element that was unwrapped around it.
C24_LeftAlignmentDropped ==
  Returned =>
    \A i \in OutputElements :
      (/\ result[i].tag \in DOMAIN allowedTags
       /\ ~Includes(allowedTags[result[i].tag].attributes, STYLE_ATTRIBUTE)) =>
        \A d \in Range(CssParse(GetAttribute(result[i].attrs, STYLE_ATTRIBUTE))) :
          ~(d.name = "text-align" /\ d.value = <<"left">>)

\* The markup with the attributes of every start tag written in reverse order.
ReverseAttributes(html) ==
  [i \in DOMAIN html |->
    [html[i] EXCEPT !.attrs = [j \in DOMAIN @ |-> @[Len(@) + 1 - j]]]]

\* C25: an allowed element whose entry does not permit align is returned
\* without an align attribute; the image given align="right" is returned with
\* the declaration text-align: right; and the returned markup is the same
\* when the attributes of the input are written in the opposite order.
C25_AlignOnAllowedElement ==
  Returned =>
    /\ \A i \in OutputElements :
         (/\ result[i].tag \in DOMAIN allowedTags
          /\ ~Includes(allowedTags[result[i].tag].attributes, ALIGN_ATTRIBUTE)) =>
           ~HasAttribute(result[i].attrs, ALIGN_ATTRIBUTE)
    /\ (/\ content \in {AlignFirstImage, StyleFirstImage}
        /\ "img" \in DOMAIN allowedTags
        /\ ~Includes(allowedTags["img"].attributes, ALIGN_ATTRIBUTE)) =>
         \A i \in OutputElements :
           result[i].tag = "img" =>
             [name |-> "text-align", value |-> <<"right">>]
               \in Range(CssParse(GetAttribute(result[i].attrs, STYLE_ATTRIBUTE)))
    /\ result = prepareContent(ReverseAttributes(content), allowedTags, filterOnly).html

\* C26: when the allow-list has no style entry the returned markup holds no
\* style element, and nothing of the text the input had inside a style
\* element, also when the style element was inside an unwrapped element.
C26_StyleElementsDeleted ==
  (Returned /\ "style" \notin DOMAIN allowedTags) =>
    /\ \A i \in OutputElements : result[i].tag # "style"
    /\ content = StyleInDiv => \A i \in DOMAIN result : result[i] # Chr("css")

\* C27: prepareContent does not throw on a paragraph whose style attribute
\* has a declaration without colon or stray separators, when the entry of p
\* permits the property and leaves the style attribute to filterStyles.
C27_MalformedStyleNotFatal ==
  \A v \in MalformedStyleValues :
    (/\ content = StyledParagraph(v)
     /\ "p" \in DOMAIN allowedTags
     /\ Includes(allowedTags["p"].styles, "text-align")
     /\ ~Includes(allowedTags["p"].attributes, STYLE_ATTRIBUTE)) =>
      pc # "thrown"

\* C28: a call of init() leaves a field that already has an editor with that
\* editor, its instance id and its content, changing at most the mode class
\* of the wrapper; it allocates no more instance ids than it has target
\* fields without an editor, each new id gets one registry entry, and the
\* entries of the other instances stay with their records.
C28_OneEditorPerField ==
  [][last'.op = "init" /\ events' = events + 1 =>
       /\ \A f \in Fields :
            editors[f].live =>
              /\ editors'[f].live
              /\ editors'[f].wid = editors[f].wid
              /\ editors'[f].html = editors[f].html
              /\ (f \notin last'.el => editors'[f].dark = editors[f].dark)
       /\ nextId' <= nextId + Cardinality({f \in last'.el : ~editors[f].live})
       /\ nextId' >= nextId
       /\ DOMAIN instances' = DOMAIN instances \cup {i \in 0..nextId' : nextId <= i /\ i < nextId'}
       /\ \A i \in DOMAIN instances : instances'[i] = instances[i]]_vars

\* C28 witness: two Wysi() calls with different darkMode were made, the
\* second for field 1 alone, which had its editor from the first: one id was
\* allocated and the wrapper has the mode of the second call.
C28_Witness ==
  /\ events = 2
  /\ Len(objects) = 2
  /\ last.op = "init"
  /\ last.el = {1}
  /\ nextId = 1
  /\ editors[1].live
  /\ objects[1].darkMode # objects[2].darkMode
  /\ editors[1].dark = objects[2].darkMode

\* C29: the keys of the instance registry are the data-wid values of the
\* editors attached to the page, every one of them below the counter the
\* next id comes from, and two editors never share an id.
C29_RegistryMatchesEditors ==
  /\ DOMAIN instances = {editors[f].wid : f \in {g \in Fields : editors[g].live}}
  /\ \A i \in DOMAIN instances : i < nextId
  /\ \A f \in Fields : \A g \in Fields :
       (editors[f].live /\ editors[g].live /\ f # g) => editors[f].wid # editors[g].wid

\* An API call that DOMReady received while the document was loading.
Deferred(callback) == callback.n > 0 /\ callback.state = "loading"

\* C30: an API call made while the document was loading has not run before
\* DOMContentLoaded; once it is dispatched every such call has run exactly
\* once, in the order the calls were made and after bootstrap; and a call
\* made when the document was no longer loading has run when it returns.
C30_DeferredCallsKeepOrder ==
  /\ ~fired => \A i \in DOMAIN ran : ~Deferred(ran[i])
  /\ fired =>
       /\ \A k \in DOMAIN listeners :
            Cardinality({i \in DOMAIN ran : ran[i] = listeners[k]}) = 1
       /\ \A i \in DOMAIN ran : \A j \in DOMAIN ran :
            (Deferred(ran[i]) /\ Deferred(ran[j]) /\ ran[i].n < ran[j].n) => i < j
       /\ \A i \in DOMAIN ran :
            Deferred(ran[i]) => \E j \in 1..(i - 1) : ran[j].fn = "bootstrap"
  /\ \A n \in 1..calls :
       \/ \E i \in DOMAIN ran : ran[i].n = n
       \/ ~fired /\ \E k \in DOMAIN listeners : Deferred(listeners[k]) /\ listeners[k].n = n
  /\ \A i \in DOMAIN ran : \A j \in DOMAIN ran : (i # j /\ ran[i].n > 0) => ran[i].n # ran[j].n

\* C30 witness: DOMContentLoaded has run two calls made while the document
\* was loading, and a later call has run at once.
C30_Witness ==
  /\ fired
  /\ \E i \in DOMAIN ran : \E j \in DOMAIN ran :
       Deferred(ran[i]) /\ Deferred(ran[j]) /\ i # j
  /\ \E i \in DOMAIN ran : ran[i].n > 0 /\ ~Deferred(ran[i])
  /\ \E k \in DOMAIN listeners : listeners[k].fn = "bootstrap"
====
